---- MODULE Spec2Model ----
(***************************************************************************)
(* QuantFlow stock screener: the pattern tracker of streamlit-screener.py  *)
(* (run_pattern_tracker and the dashboard's entry advice) and the desktop  *)
(* terminal of trading.py (StockScreenerApp.quick_analyze).                *)
(*                                                                         *)
(* Bar series are 0-indexed as in the source (At(s, i) is s.iloc[i]).      *)
(* float64 values are modelled as exact rationals in lowest terms, with    *)
(* NaN and the two infinities as separate values: every number the model   *)
(* feeds in is a small integer, so no rounding takes place in the source   *)
(* on the comparisons modelled here.                                       *)
(***************************************************************************)
EXTENDS Integers, Sequences, FiniteSets, TLC

VARIABLES
    df,           \* the frame history() returns: the bars, oldest first
    res,          \* the dict run_pattern_tracker returned on the last run
    advice,       \* the banners the dashboard showed on the last run
    result_box,   \* the texts inserted in the terminal's result box, in order
    canvas,       \* the symbol charted in the terminal's canvas frame
    last_ticker   \* ticker_str of the latest quick_analyze call

vars == <<df, res, advice, result_box, canvas, last_ticker>>

-----------------------------------------------------------------------------
(* Bounds of the model.                                                    *)

\* longest bar series fed to the pattern tracker
MaxLen == 7
\* longest bar series of the indicator specification (two bar shapes)
MaxBars == 15
\* longest bar series handed to the desktop terminal
MaxDeskLen == 3
\* the result box is not analysed beyond this many messages
MaxBox == 3

-----------------------------------------------------------------------------
(* float64 arithmetic as used by the source.                               *)

RECURSIVE Gcd(_, _)
Gcd(a, b) == IF b = 0 THEN a ELSE Gcd(b, a % b)

Abs(x) == IF x < 0 THEN -x ELSE x

NaN == [k |-> "nan", n |-> 0, d |-> 1]
Inf(sign) == [k |-> "inf", n |-> sign, d |-> 1]

\* the rational n/d (d > 0) in lowest terms
Rat(n, d) ==
    LET g == Gcd(Abs(n), d)
    IN  [k |-> "fin", n |-> n \div g, d |-> d \div g]

F(x) == Rat(x, 1)

IsNaN(a) == a.k = "nan"

Sign(x) == IF x < 0 THEN -1 ELSE IF x > 0 THEN 1 ELSE 0

\* a - b on finite values and NaN (the only operands the source subtracts)
FSub(a, b) ==
    IF IsNaN(a) \/ IsNaN(b) THEN NaN
    ELSE Rat(a.n * b.d - b.n * a.d, a.d * b.d)

FAbs(a) == IF a.k = "fin" THEN Rat(Abs(a.n), a.d) ELSE
           IF a.k = "inf" THEN Inf(1) ELSE NaN

\* a / b under IEEE-754 as numpy does it: x/0 is an infinity, 0/0 is NaN
FDiv(a, b) ==
    IF IsNaN(a) \/ IsNaN(b) THEN NaN
    ELSE IF a.k = "inf" THEN (IF b.k = "inf" THEN NaN
                              ELSE Inf(a.n * (IF b.n < 0 THEN -1 ELSE 1)))
    ELSE IF b.k = "inf" THEN F(0)
    ELSE IF b.n = 0 THEN (IF a.n = 0 THEN NaN ELSE Inf(Sign(a.n)))
    ELSE Rat(a.n * b.d * Sign(b.n), a.d * Abs(b.n))

FMulInt(a, c) ==
    IF a.k = "fin" THEN Rat(a.n * c, a.d)
    ELSE IF a.k = "inf" THEN (IF c = 0 THEN NaN ELSE Inf(a.n * Sign(c)))
    ELSE NaN

\* a < b; every comparison with NaN is False
FLt(a, b) ==
    IF IsNaN(a) \/ IsNaN(b) THEN FALSE
    ELSE IF a.k = "inf" THEN (a.n < 0 /\ ~(b.k = "inf" /\ b.n < 0))
    ELSE IF b.k = "inf" THEN b.n > 0
    ELSE a.n * b.d < b.n * a.d

FGt(a, b) == FLt(b, a)

\* a != b; NaN differs from everything
FNe(a, b) == IsNaN(a) \/ IsNaN(b) \/ a # b

\* numpy.maximum: the larger operand, NaN when either operand is NaN
NpMaximum(a, b) ==
    IF IsNaN(a) \/ IsNaN(b) THEN NaN
    ELSE IF FLt(a, b) THEN b ELSE a

-----------------------------------------------------------------------------
(* Bars and the columns of the frame.                                      *)

Price(tick) == 40 + tick

\* a session that opens at its low and closes at its high
BarOf(low, size) ==
    [Open |-> Price(low), High |-> Price(low + size),
     Low |-> Price(low), Close |-> Price(low + size)]

\* the bar shapes fed to the pattern tracker: ranges 0 to 3 from the lowest
\* price, and one shape whose low lies a tick above it
TrackerBars == {BarOf(0, s) : s \in 0..3} \cup {BarOf(1, 2)}

\* the bar shapes of the indicator specification: a flat and a one-tick bar
IndicatorBars == {BarOf(0, s) : s \in 0..1}

At(s, i) == s[i + 1]

\* df['Size'] = df['High'] - df['Low']
Size(frame, i) == At(frame, i).High - At(frame, i).Low

\* df['Close'].shift(1)
PrevClose(frame, i) == IF i = 0 THEN NaN ELSE F(At(frame, i - 1).Close)

\* df['TR']
TR(frame, i) ==
    NpMaximum(F(Size(frame, i)),
        NpMaximum(FAbs(FSub(F(At(frame, i).High), PrevClose(frame, i))),
                  FAbs(FSub(F(At(frame, i).Low), PrevClose(frame, i)))))

\* rolling(window=14)
AtrWindow == 14

RECURSIVE WindowSum(_, _, _)
\* sum of TR over the j bars ending at index i, NaN when one of them is NaN
WindowSum(frame, i, j) ==
    IF j = 0 THEN F(0)
    ELSE LET rest == WindowSum(frame, i - 1, j - 1)
             t == TR(frame, i)
         IN  IF IsNaN(rest) \/ IsNaN(t) THEN NaN
             ELSE Rat(rest.n * t.d + t.n * rest.d, rest.d * t.d)

\* df['ATR']: the mean needs AtrWindow observations, none of them NaN
ATR(frame, i) ==
    IF i + 1 < AtrWindow THEN NaN
    ELSE FDiv(WindowSum(frame, i, AtrWindow), F(AtrWindow))

-----------------------------------------------------------------------------
(* streamlit-screener.py: run_pattern_tracker.                             *)

\* the test of the scout loop's body: a candle smaller than both neighbours
IsBase(frame, i) ==
    Size(frame, i) < Size(frame, i - 1) /\ Size(frame, i) < Size(frame, i + 1)

RECURSIVE ScanDownToOne(_, _)
\* the loop written as range(len(df)-2, 0, -1)
ScanDownToOne(frame, i) ==
    IF i <= 0 THEN -1
    ELSE IF IsBase(frame, i) THEN i
    ELSE ScanDownToOne(frame, i - 1)

RECURSIVE ScanFrom(_, _)
\* for i in range(len(df)-2, 2, -1): the first hit, walking back; -1 if none
ScanFrom(frame, i) ==
    IF i <= 2 THEN -1
    ELSE IF IsBase(frame, i) THEN i
    ELSE ScanFrom(frame, i - 1)

RECURSIVE ScanUpFrom(_, _)
ScanUpFrom(frame, i) ==
    IF i > Len(frame) - 2 THEN -1
    ELSE IF IsBase(frame, i) THEN i
    ELSE ScanUpFrom(frame, i + 1)

\* the loop walking forward and stopping at the oldest base
BestBaseIdxOldest(frame) == ScanUpFrom(frame, 3)

BestBaseIdx(frame) == ScanFrom(frame, Len(frame) - 2)

\* the ratio taken without the test of the divisor
TrAtrRatioUnguarded(tr, atr) == FDiv(tr, atr)

\* res["tr_atr_ratio"]
TrAtrRatio(tr, atr) == IF FNe(atr, F(0)) THEN FDiv(tr, atr) ELSE F(0)

\* res["momentum"]
Momentum(tr, atr) == FGt(tr, atr)

\* res["is_golden"]
IsGolden(frame, b) ==
    /\ Size(frame, b - 1) >= 2 * Size(frame, b)
    /\ Size(frame, b + 1) >= 4 * Size(frame, b)

\* res["ratio_out"]
RatioOut(frame, b) ==
    IF Size(frame, b) # 0
    THEN FDiv(F(Size(frame, b + 1)), F(Size(frame, b)))
    ELSE F(0)

\* the slice taken after the leg-out bar: df.iloc[best_base_idx+2:]
PostSetupSkipLegOut(frame, b) == SubSeq(frame, b + 3, Len(frame))

\* the slice taken as a trailing window: df.iloc[-2:]
PostSetupTrailing(frame, b) ==
    IF Len(frame) < 2 THEN frame
    ELSE SubSeq(frame, Len(frame) - 1, Len(frame))

\* post_setup_df = df.iloc[best_base_idx+1:]
PostSetup(frame, b) == SubSeq(frame, b + 2, Len(frame))

IsViolation(bar, base_high) == bar.Low < base_high

\* violation_days = post_setup_df[post_setup_df['Low'] < res["base_high"]]
ViolationDays(frame, b) ==
    LET base_high == At(frame, b).High
        Dip(bar) == IsViolation(bar, base_high)
    IN  SelectSeq(PostSetup(frame, b), Dip)

\* res["distance_pct"]
DistancePct(price, base_high) ==
    FMulInt(FDiv(F(price - base_high), F(base_high)), 100)

TickerStr(symbol, is_psx) == IF is_psx THEN <<symbol, ".KA">> ELSE <<symbol>>

Absent == [k |-> "absent", n |-> 0, d |-> 1]

\* no run of the script yet
NoRes == [ticker |-> <<>>, found |-> FALSE, candle_found |-> FALSE,
          price |-> Absent, tr_val |-> Absent, atr_val |-> Absent,
          tr_atr_ratio |-> Absent, momentum |-> FALSE,
          base_date |-> -1, base_high |-> Absent, base_low |-> Absent,
          is_golden |-> FALSE, ratio_out |-> Absent,
          white_area_clean |-> FALSE, violation_count |-> -1,
          distance_pct |-> Absent]

\* the dict returned for an empty frame
EmptyRes(ticker_str) == [NoRes EXCEPT !.ticker = ticker_str]

\* the dict built before the base is judged
ContextRes(frame, ticker_str) ==
    LET last == Len(frame) - 1
        tr == TR(frame, last)
        atr == ATR(frame, last)
    IN  [NoRes EXCEPT !.ticker = ticker_str, !.found = TRUE,
                      !.price = F(At(frame, last).Close),
                      !.tr_val = tr, !.atr_val = atr,
                      !.tr_atr_ratio = TrAtrRatio(tr, atr),
                      !.momentum = Momentum(tr, atr)]

\* the fields added when best_base_idx != -1
JudgedRes(frame, r, b) ==
    LET days == ViolationDays(frame, b)
    IN  [r EXCEPT !.candle_found = TRUE,
                  !.base_date = b,
                  !.base_high = F(At(frame, b).High),
                  !.base_low = F(At(frame, b).Low),
                  !.is_golden = IsGolden(frame, b),
                  !.ratio_out = RatioOut(frame, b),
                  !.white_area_clean = (days = <<>>),
                  !.violation_count = Len(days),
                  !.distance_pct =
                      DistancePct(At(frame, Len(frame) - 1).Close,
                                  At(frame, b).High)]

PatternTracker(frame, symbol, is_psx) ==
    LET ticker_str == TickerStr(symbol, is_psx)
    IN  IF frame = <<>> THEN EmptyRes(ticker_str)
        ELSE LET b == BestBaseIdx(frame)
                 r == ContextRes(frame, ticker_str)
             IN  IF b # -1 THEN JudgedRes(frame, r, b) ELSE r

\* the advice with the last band starting at 3.5 instead of 5.0
EntryAdviceBandAt35(r) ==
    IF ~r.found THEN {}
    ELSE IF ~r.candle_found THEN {"NO BASE FOUND"}
    ELSE IF FLt(r.distance_pct, Rat(5, 2)) THEN {"GOLDEN ENTRY"}
    ELSE IF FLt(r.distance_pct, Rat(7, 2)) THEN {"FAIR ENTRY"}
    ELSE {"OVEREXTENDED"}

\* the banners of the dashboard's advice column for one run
EntryAdvice(r) ==
    IF ~r.found THEN {}
    ELSE IF ~r.candle_found THEN {"NO BASE FOUND"}
    ELSE IF FLt(r.distance_pct, Rat(5, 2)) THEN {"GOLDEN ENTRY"}
    ELSE IF FLt(r.distance_pct, F(5)) THEN {"FAIR ENTRY"}
    ELSE {"OVEREXTENDED"}

-----------------------------------------------------------------------------
(* trading.py: StockScreenerApp.quick_analyze.                             *)

\* the bar shapes handed to the desktop terminal
DeskBars == {BarOf(0, 0), BarOf(0, 1), BarOf(1, 2)}

DeskFrames == UNION {[1..n -> DeskBars] : n \in 0..MaxDeskLen}

Symbols == {"SYS", "TSM"}

\* what the user may have typed in the entry, and its upper()
Typed == {"sys", "TSM"}
Upper(text) == IF text = "sys" THEN "SYS" ELSE text

RECURSIVE Pow(_, _)
Pow(x, e) == IF e = 0 THEN 1 ELSE x * Pow(x, e - 1)

RECURSIVE EmaNum(_, _, _)
\* ewm(span, adjust=False).mean() at index i, as the numerator of a fraction
\* over 357^i (357 = lcm(21, 51), so both spans share the denominator):
\* ema[0] = close[0], ema[i] = 2/(span+1) close[i] + (span-1)/(span+1) ema[i-1]
EmaNum(frame, i, span) ==
    LET m == 357 \div (span + 1)
    IN  IF i = 0 THEN At(frame, 0).Close
        ELSE 2 * m * At(frame, i).Close * Pow(357, i - 1)
                 + m * (span - 1) * EmaNum(frame, i - 1, span)

\* leg_in >= 2 * base and leg_out >= 4 * base on the last three bars
RatioPass(frame) ==
    LET n == Len(frame)
    IN  /\ Size(frame, n - 3) >= 2 * Size(frame, n - 2)
        /\ Size(frame, n - 1) >= 4 * Size(frame, n - 2)

\* df['High'].iloc[-8:-1].max()
Prev7dHigh(frame) ==
    LET n == Len(frame)
        first == IF n - 8 < 0 THEN 0 ELSE n - 8
        highs == {At(frame, i).High : i \in first..(n - 2)}
    IN  CHOOSE h \in highs : \A g \in highs : g <= h

WhiteAreaPass(frame) == At(frame, Len(frame) - 1).Low > Prev7dHigh(frame)

Pulse(frame) ==
    LET last == Len(frame) - 1
    IN  /\ EmaNum(frame, last, 20) > EmaNum(frame, last, 50)
        /\ At(frame, last).Close > At(frame, last).Open

NoText == [kind |-> "none", ticker |-> <<>>, pulse |-> FALSE,
           ratio_pass |-> FALSE, white_area_pass |-> FALSE,
           zone_low |-> 0, zone_high |-> 0, safe |-> FALSE]

\* "Error: <ticker> not found."
NotFoundText(ticker_str) ==
    [NoText EXCEPT !.kind = "not found", !.ticker = ticker_str]

\* "System Error: <str(e)>", which does not name the ticker
SystemErrorText == [NoText EXCEPT !.kind = "system error"]

\* the dashboard report
ReportText(frame, ticker_str) ==
    LET pulse == Pulse(frame)
        ratio_pass == RatioPass(frame)
        white_area_pass == WhiteAreaPass(frame)
    IN  [kind |-> "report", ticker |-> ticker_str, pulse |-> pulse,
         ratio_pass |-> ratio_pass, white_area_pass |-> white_area_pass,
         zone_low |-> At(frame, Len(frame) - 2).Low,
         zone_high |-> At(frame, Len(frame) - 2).High,
         safe |-> (pulse /\ ratio_pass /\ white_area_pass)]

\* df['Size'].iloc[-3] raises IndexError on a frame of one or two bars
RaisesIndexError(frame) == Len(frame) < 3

-----------------------------------------------------------------------------
(* Actions.                                                                *)

Init ==
    /\ df = <<>>
    /\ res = NoRes
    /\ advice = {}
    /\ result_box = <<>>
    /\ canvas = <<>>
    /\ last_ticker = <<>>

\* the provider's history grows by one session; the page shown is stale
\* until the script runs again
NewBar(bar, limit) ==
    /\ Len(df) < limit
    /\ df' = Append(df, bar)
    /\ res' = NoRes
    /\ advice' = {}
    /\ UNCHANGED <<result_box, canvas, last_ticker>>

\* one run of the script: run_pattern_tracker, then the dashboard
RunPatternTracker(symbol, is_psx) ==
    /\ res' = PatternTracker(df, symbol, is_psx)
    /\ advice' = EntryAdvice(res')
    /\ UNCHANGED <<df, result_box, canvas, last_ticker>>

\* quick_analyze(symbol, is_psx) with frame the history the provider returns
QuickAnalyze(symbol, is_psx, frame) ==
    LET ticker_str == TickerStr(symbol, is_psx)
    IN  /\ df' = frame
        /\ last_ticker' = ticker_str
        /\ IF frame = <<>>
           THEN /\ result_box' = <<NotFoundText(ticker_str)>>
                /\ canvas' = canvas
           ELSE IF RaisesIndexError(frame)
           THEN \* the except branch inserts without deleting
                /\ Len(result_box) < MaxBox
                /\ result_box' = Append(result_box, SystemErrorText)
                /\ canvas' = canvas
           ELSE /\ result_box' = <<ReportText(frame, ticker_str)>>
                /\ canvas' = <<symbol>>
        /\ UNCHANGED <<res, advice>>

\* run_manual_analysis: the entry's text in upper case, the PSX check box
RunManualAnalysis(text, psx_var, frame) ==
    QuickAnalyze(Upper(text), psx_var, frame)

Next ==
    \/ \E bar \in TrackerBars : NewBar(bar, MaxLen)
    \/ RunPatternTracker("SYS", TRUE)

Spec == Init /\ [][Next]_vars

\* long series of two bar shapes, to fill the rolling window of the ATR
NextIndicators ==
    \/ \E bar \in IndicatorBars : NewBar(bar, MaxBars)
    \/ RunPatternTracker("TSM", FALSE)

SpecIndicators == Init /\ [][NextIndicators]_vars

\* the desktop terminal: the sidebar buttons and the manual entry
NextDesktop ==
    \/ \E symbol \in Symbols, is_psx \in BOOLEAN, frame \in DeskFrames :
           QuickAnalyze(symbol, is_psx, frame)
    \/ \E text \in Typed, psx_var \in BOOLEAN, frame \in DeskFrames :
           RunManualAnalysis(text, psx_var, frame)

SpecDesktop == Init /\ [][NextDesktop]_vars

-----------------------------------------------------------------------------
(* Properties of the pattern tracker.                                      *)

N == Len(df)
Range(i) == df[i + 1].High - df[i + 1].Low

\* index i is reported as the base of the structure
Reported(i) == res.candle_found /\ res.base_date = i

\* a bar strictly smaller than both of its neighbours, at an index the loop visits
Smaller(i) ==
    /\ i \in 3..(N - 2)
    /\ Range(i) < Range(i - 1)
    /\ Range(i) < Range(i + 1)

\* the qualification of the specification: thresholds 1.5 and 2.0, inclusive
Qualifies(i) ==
    /\ Range(i) # 0
    /\ 2 * Range(i - 1) >= 3 * Range(i)
    /\ Range(i + 1) >= 2 * Range(i)

\* C1 as stated: after a scan, an index i in [1, N-2] is reported if and only
\* if its range is not zero, its leg-in is at least 1.5 times and its leg-out
\* at least 2.0 times its range.
C1_ReportsEveryQualifyingIndex ==
    res.found => \A i \in 1..(N - 2) : Reported(i) <=> Qualifies(i)

\* C1 as amended: an index is reported only if it lies in [3, N-2] and its
\* range is strictly smaller than the ranges of both neighbours, and an index
\* is reported whenever such an index exists.
C1_ReportsOneSmallerBar ==
    res.found =>
        /\ \A i \in 0..(N - 1) : Reported(i) => Smaller(i)
        /\ (\E i \in 0..(N - 1) : Smaller(i)) => res.candle_found
        /\ res.candle_found => res.base_date \in 0..(N - 1)

\* a base of non-zero range is reported that misses the thresholds of the
\* specification, while an older index that meets them is not reported
C1_Witness ==
    /\ res.candle_found
    /\ Range(res.base_date) # 0
    /\ ~Qualifies(res.base_date)
    /\ \E i \in 1..(N - 2) : i < res.base_date /\ Qualifies(i)

\* C2 as stated: a bar of zero range is never reported as the base.
C2_ZeroRangeNeverAnchors ==
    \A i \in 0..(N - 1) : Reported(i) => Range(i) # 0

Pristine(i) == \A j \in (i + 1)..(N - 1) : df[j + 1].Low >= df[i + 1].High

\* the key (is_pristine, leg_out_ratio) of bar c is strictly above that of bar b
KeyAbove(c, b) ==
    \/ Pristine(c) /\ ~Pristine(b)
    \/ /\ Pristine(c) <=> Pristine(b)
       /\ Range(c + 1) * Range(b) > Range(b + 1) * Range(c)

\* C3 as stated: the selected zone maximises (is_pristine, leg_out_ratio)
\* over the candidates (bars of zero range, which have no ratio, left aside).
C3_SelectsMaximalKey ==
    (res.candle_found /\ Range(res.base_date) # 0) =>
        \A c \in 0..(N - 1) :
            (Smaller(c) /\ Range(c) # 0) => ~KeyAbove(c, res.base_date)

\* C3 as amended: the selected zone is the most recent candidate.
C3_SelectsMostRecent ==
    res.candle_found =>
        \A c \in 0..(N - 1) : Smaller(c) => c <= res.base_date

\* the most recent candidate is selected although an older one has a larger key
C3_Witness ==
    /\ res.candle_found
    /\ Range(res.base_date) # 0
    /\ \E c \in 0..(N - 1) :
           /\ Smaller(c) /\ Range(c) # 0 /\ c < res.base_date
           /\ KeyAbove(c, res.base_date)

Dips(a) == {j \in (a + 1)..(N - 1) : df[j + 1].Low < df[a + 1].High}

\* C4: for the selected anchor a, violation_count is the number of bars at
\* a+1 .. N-1 whose low is strictly below high[a], and the zone is reported
\* clean if and only if that number is zero.
C4_ViolationCount ==
    res.candle_found =>
        /\ res.violation_count = Cardinality(Dips(res.base_date))
        /\ res.white_area_clean <=> (Dips(res.base_date) = {})

\* three bars after the anchor, of which the middle one alone dips below it
C4_Witness ==
    /\ res.candle_found
    /\ res.base_date = N - 4
    /\ Dips(res.base_date) = {N - 2}
    /\ res.violation_count = 1
    /\ ~res.white_area_clean

\* distance_pct < t/10, on the prices of the frame
DistanceBelow(t) ==
    LET price == df[N].Close
        ceiling == df[res.base_date + 1].High
    IN  1000 * (price - ceiling) < t * ceiling

\* C5 as stated (its part on the last verdict): with a zone selected, the
\* overextended verdict is given if and only if distance_pct >= 3.5.
C5_DoNotChaseFrom35 ==
    res.candle_found => (("OVEREXTENDED" \in advice) <=> ~DistanceBelow(35))

\* C5 as amended: with a zone selected exactly one advice is given, by
\* distance_pct alone: GOLDEN ENTRY below 2.5, FAIR ENTRY from 2.5 and
\* below 5.0, OVEREXTENDED from 5.0.
C5_AdviceByDistance ==
    res.candle_found =>
        /\ Cardinality(advice) = 1
        /\ ("GOLDEN ENTRY" \in advice) <=> DistanceBelow(25)
        /\ ("FAIR ENTRY" \in advice) <=> (~DistanceBelow(25) /\ DistanceBelow(50))
        /\ ("OVEREXTENDED" \in advice) <=> ~DistanceBelow(50)

\* a fair entry at a distance of 3.5 or more
C5_Witness ==
    /\ res.candle_found
    /\ advice = {"FAIR ENTRY"}
    /\ ~DistanceBelow(35)

\* C7 as stated: an ATR that is undefined or zero gives an undefined ratio.
C7_RatioUndefinedOnZeroAtr ==
    (res.found /\ (IsNaN(res.atr_val) \/ res.atr_val = F(0))) =>
        IsNaN(res.tr_atr_ratio)

\* C7 as amended: the ratio is NaN exactly when the ATR is NaN, it is 0 when
\* the ATR is zero, it is never an infinity, and in both cases momentum is
\* False.
C7_RatioNaNOrZero ==
    res.found =>
        /\ IsNaN(res.tr_atr_ratio) <=> IsNaN(res.atr_val)
        /\ res.atr_val = F(0) => res.tr_atr_ratio = F(0)
        /\ res.tr_atr_ratio.k # "inf"
        /\ (IsNaN(res.atr_val) \/ res.atr_val = F(0)) => ~res.momentum

\* the ATR of the last bar is zero and the ratio is reported as 0
C7_Witness ==
    /\ res.found
    /\ res.atr_val = F(0)
    /\ res.tr_atr_ratio = F(0)

\* C8 as stated: the true range of the first bar is its range, and the ATR is
\* defined from index 13 on.
C8_FirstTrueRangeDefined ==
    res.found =>
        /\ N = 1 => res.tr_val = F(Range(0))
        /\ N >= 14 => ~IsNaN(res.atr_val)

\* the new frame is the old one with one bar appended
Appended == Len(df') = Len(df) + 1 /\ SubSeq(df', 1, Len(df)) = df

\* C9: appending bars never lowers the violation count of an anchor that is
\* already formed (one that has its leg-out bar).
C9_ViolationCountMonotone ==
    [][Appended =>
          \A a \in 0..(Len(df) - 2) :
              Len(ViolationDays(df', a)) >= Len(ViolationDays(df, a))]_vars

\* the last bar appended has raised the count of an anchor formed before it
C9_Witness ==
    /\ N >= 3
    /\ \E a \in 0..(N - 3) :
           Len(ViolationDays(df, a)) >
               Len(ViolationDays(SubSeq(df, 1, N - 1), a))

-----------------------------------------------------------------------------
(* Properties of the desktop terminal.                                     *)

Called == last_ticker # <<>>

\* C6 as stated: a series of fewer than three bars ends in the no-setup
\* outcome, with no error raised.
C6_ShortSeriesNoSetup ==
    (Called /\ Len(df) \in 1..2) =>
        /\ result_box[Len(result_box)].kind = "report"
        /\ ~result_box[Len(result_box)].safe

\* C10 as stated: when a call returns, the result box holds exactly one
\* message, and it is about the ticker of that call.
C10_BoxHoldsLatestOnly ==
    Called =>
        /\ Len(result_box) = 1
        /\ result_box[1].kind # "system error" =>
               result_box[1].ticker = last_ticker

====
